---- MODULE Spec2Model ----
(***************************************************************************)
(* Reservation and payment reconciliation of the wedding platform backend  *)
(* (routes/bookings.js, routes/payments.js, middleware/auth.js).           *)
(*                                                                         *)
(* The store is the PostgreSQL pool: the tables availability, bookings and *)
(* payments are the shared state.  Every handler is an async function; it  *)
(* runs one pool.query at a time and any other request may run between two *)
(* of its awaits, so every handler is modelled as a process whose steps    *)
(* are its queries.  Queries that only read the catalog (services,         *)
(* vendor_profiles), which no handler of the engine writes, are folded     *)
(* into the step that follows them.  The updated_at/created_at columns     *)
(* are wall-clock audit values and are not modelled.                       *)
(***************************************************************************)
EXTENDS Integers, Sequences, FiniteSets, TLC

VARIABLES
    is_available,   \* availability.is_available, per availability row
    bookings,       \* bookings table: row id = index
    payments,       \* payments table: row id = index
    intents,        \* the gateway's payment intents: intent id = index
    events,         \* gateway events emitted so far (delivered in any order, any number of times)
    reqs            \* the requests in flight, one record per handler invocation

vars == <<is_available, bookings, payments, intents, events, reqs>>

----------------------------------------------------------------------------
(* Bounds *)

MaxBookings == 2
MaxPayments == 2
MaxInflight == 2
\* bookings of the payment specification
MaxPaidBookings == 1
\* the times 0..MaxTime of the intervals the overlap test is compared on
MaxTime == 4

ReqIds == 1..MaxInflight

----------------------------------------------------------------------------
(* Catalog and identities: read-only for the engine *)

\* users.user_type of the accounts that call the engine
user_type ==
    [c1 |-> "customer", c2 |-> "customer", v1 |-> "vendor", a1 |-> "admin"]

UserIds == DOMAIN user_type

\* authenticateToken attaches {id, email, userType}: the object has no `role`
ReqUser(u) == [id |-> u, userType |-> user_type[u]]

\* `const { role, id: userId } = req.user`: a field the object lacks is undefined
RoleOf(user) == IF "role" \in DOMAIN user THEN user.role ELSE "undefined"

\* requireUserType(allowedTypes)
requireUserType(allowedTypes, user) == user.userType \in allowedTypes

\* services rows: s1 of the verified vendor v1, s2 of the unverified vendor v2,
\* s3 inactive
services ==
    [s1 |-> [vendor_id |-> "v1", is_active |-> TRUE, base_price |-> 500],
     s2 |-> [vendor_id |-> "v2", is_active |-> TRUE, base_price |-> 500],
     s3 |-> [vendor_id |-> "v1", is_active |-> FALSE, base_price |-> 500]]

\* vendor_profiles.is_verified
vendor_profiles == [v1 |-> [is_verified |-> TRUE], v2 |-> [is_verified |-> FALSE]]

\* availability rows (all columns except is_available, which is the variable).
\* Rows 1 and 2 of s1 overlap: row 1 covers [1,3), row 2 covers [2,3).
\* Row 1 keeps the column default of price_modifier, row 2 doubles the price.
availability ==
    <<[service_id |-> "s1", available_date |-> "d1", start_time |-> 1, end_time |-> 3,
       price_modifier |-> 1],
      [service_id |-> "s1", available_date |-> "d1", start_time |-> 2, end_time |-> 3,
       price_modifier |-> 2]>>

SlotIds == DOMAIN availability

Times == {1, 2, 3}

\* the [start, end) intervals a request may carry
Intervals == {iv \in Times \X Times : iv[1] < iv[2]}

Dates == {"d1"}

\* the total_amount values a request body may carry
Amounts == {100, 150}

\* the one total_amount of the requests whose price plays no part
ListPrice == {100}

BookingStatuses == {"pending", "confirmed", "in_progress", "completed", "cancelled"}

PaymentStatuses == {"pending", "completed", "failed", "refunded"}

----------------------------------------------------------------------------
(* Store queries shared by the handlers *)

\* a variant of the condition below that takes a row overlapping the interval
CoversPartly(row, service_id, date, start_time, end_time) ==
    /\ row.service_id = service_id
    /\ row.available_date = date
    /\ row.start_time < end_time
    /\ row.end_time > start_time

\* WHERE service_id = $1 AND available_date = $2 AND start_time <= $3 AND end_time >= $4
Covers(row, service_id, date, start_time, end_time) ==
    /\ row.service_id = service_id
    /\ row.available_date = date
    /\ row.start_time <= start_time
    /\ row.end_time >= end_time

\* a variant of the query below that matches only a row ending at end_time
availabilityCheckExactEnd(avail, service_id, date, start_time, end_time) ==
    {s \in SlotIds : Covers(availability[s], service_id, date, start_time, end_time)
                     /\ availability[s].end_time = end_time
                     /\ avail[s]}

\* SELECT * FROM availability WHERE <covers> AND is_available = true
availabilityCheck(avail, service_id, date, start_time, end_time) ==
    {s \in SlotIds : Covers(availability[s], service_id, date, start_time, end_time)
                     /\ avail[s]}

\* UPDATE availability SET is_available = <value> WHERE <covers>
UpdateAvailability(avail, value, service_id, date, start_time, end_time) ==
    [s \in SlotIds |->
        IF Covers(availability[s], service_id, date, start_time, end_time)
        THEN value ELSE avail[s]]

\* a variant of the test below whose first clause takes end_time >= start
TimeClashClosed(row, start_time, end_time) ==
    \/ (row.start_time <= start_time /\ row.end_time >= start_time)
    \/ (row.start_time < end_time /\ row.end_time >= end_time)
    \/ (row.start_time >= start_time /\ row.end_time <= end_time)

\* the three-clause overlap test of existingBookingCheck
TimeClash(row, start_time, end_time) ==
    \/ (row.start_time <= start_time /\ row.end_time > start_time)
    \/ (row.start_time < end_time /\ row.end_time >= end_time)
    \/ (row.start_time >= start_time /\ row.end_time <= end_time)

\* SELECT * FROM bookings WHERE customer_id = $1 AND booking_date = $2
\*   AND status IN ('pending','confirmed','in_progress') AND (<three clauses>)
existingBookingCheck(rows, customer_id, date, start_time, end_time) ==
    {b \in DOMAIN rows :
        /\ rows[b].customer_id = customer_id
        /\ rows[b].booking_date = date
        /\ rows[b].status \in {"pending", "confirmed", "in_progress"}
        /\ TimeClash(rows[b], start_time, end_time)}

\* UPDATE bookings SET status = $1 WHERE id = $2
SetBookingStatus(rows, id, status) ==
    [b \in DOMAIN rows |-> IF b = id THEN [rows[b] EXCEPT !.status = status] ELSE rows[b]]

\* UPDATE payments SET status = $1 WHERE id = $2
SetPaymentStatus(rows, id, status) ==
    [p \in DOMAIN rows |-> IF p = id THEN [rows[p] EXCEPT !.status = status] ELSE rows[p]]

----------------------------------------------------------------------------
(* Requests *)

Idle == [op |-> "idle", pc |-> "idle"]

NoRes == [code |-> 0, message |-> "none"]

InFlight(r) == r.op # "idle" /\ r.pc # "done"

\* res.status(code).json({message}): the handler returns and keeps no locals
Respond(r, code, message) ==
    [op |-> r.op, pc |-> "done", res |-> [code |-> code, message |-> message]]

\* a response of createBooking after its catalog checks keeps what was asked
RespondCreate(r, code, message) ==
    [r EXCEPT !.pc = "done", !.res = [code |-> code, message |-> message]]

\* a worker is free for the next request once it has responded
Free(i) == ~InFlight(reqs[i])

\* the request i starts as the record r.  `conc` of a createBooking request is the
\* set of createBooking requests that were in flight while it was: the new request
\* takes the place of the one worker i answered before.
Launch(i, r) ==
    [j \in ReqIds |->
        IF j = i THEN r
        ELSE IF reqs[j].op = "createBooking" /\ "conc" \in DOMAIN reqs[j]
        THEN [reqs[j] EXCEPT !.conc =
                 IF InFlight(reqs[j]) /\ r.op = "createBooking" /\ InFlight(r)
                 THEN @ \cup {i} ELSE @ \ {i}]
        ELSE reqs[j]]

----------------------------------------------------------------------------
(* POST /bookings: create a booking *)

\* rows the bookings table may still take, given the inserts already in flight
BookingRoom ==
    Len(bookings)
      + Cardinality({j \in ReqIds : reqs[j].op = "createBooking" /\ InFlight(reqs[j])})
      < MaxBookings

\* requireCustomer, then serviceCheck and vendorCheck on the catalog
CreateBookingStart(i, u, service_id, booking_date, start_time, end_time, total_amount) ==
    LET user == ReqUser(u)
        r0   == [op |-> "createBooking", pc |-> "start"]
        r1   == [op |-> "createBooking", pc |-> "start", service_id |-> service_id,
                 res |-> NoRes]
        others == {j \in ReqIds \ {i} :
                      reqs[j].op = "createBooking" /\ InFlight(reqs[j])}
    IN
    /\ Free(i)
    /\ BookingRoom
    /\ reqs' = Launch(i,
          IF ~requireUserType({"customer"}, user)
          THEN Respond(r0, 403, "Insufficient permissions")
          ELSE IF service_id \notin DOMAIN services \/ ~services[service_id].is_active
          THEN RespondCreate(r1, 404, "Service not found or inactive")
          ELSE IF services[service_id].vendor_id \notin DOMAIN vendor_profiles
                  \/ ~vendor_profiles[services[service_id].vendor_id].is_verified
          THEN RespondCreate(r1, 400, "Cannot book with unverified vendor")
          ELSE [op |-> "createBooking", pc |-> "availabilityCheck",
                customer_id |-> user.id, service_id |-> service_id,
                vendor_id |-> services[service_id].vendor_id,
                booking_date |-> booking_date,
                start_time |-> start_time, end_time |-> end_time,
                total_amount |-> total_amount,
                conc |-> others, res |-> NoRes])
    /\ UNCHANGED <<is_available, bookings, payments, intents, events>>

CreateBookingAvailabilityCheck(i) ==
    LET r == reqs[i] IN
    /\ r.op = "createBooking" /\ r.pc = "availabilityCheck"
    /\ IF availabilityCheck(is_available, r.service_id, r.booking_date,
                            r.start_time, r.end_time) = {}
       THEN reqs' = [reqs EXCEPT ![i] =
                        RespondCreate(r, 400, "Requested time slot is not available")]
       ELSE reqs' = [reqs EXCEPT ![i].pc = "existingBookingCheck"]
    /\ UNCHANGED <<is_available, bookings, payments, intents, events>>

CreateBookingExistingCheck(i) ==
    LET r == reqs[i] IN
    /\ r.op = "createBooking" /\ r.pc = "existingBookingCheck"
    /\ IF existingBookingCheck(bookings, r.customer_id, r.booking_date,
                               r.start_time, r.end_time) # {}
       THEN reqs' = [reqs EXCEPT ![i] =
                RespondCreate(r, 400, "You already have a booking for this time slot")]
       ELSE reqs' = [reqs EXCEPT ![i].pc = "insert"]
    /\ UNCHANGED <<is_available, bookings, payments, intents, events>>

\* INSERT INTO bookings (...) VALUES (..., 'pending') RETURNING *: `result` is the new row
CreateBookingInsert(i) ==
    LET r == reqs[i] IN
    /\ r.op = "createBooking" /\ r.pc = "insert"
    /\ bookings' = Append(bookings,
            [customer_id |-> r.customer_id, vendor_id |-> r.vendor_id,
             service_id |-> r.service_id, booking_date |-> r.booking_date,
             start_time |-> r.start_time, end_time |-> r.end_time,
             total_amount |-> r.total_amount, status |-> "pending"])
    /\ reqs' = [reqs EXCEPT ![i] =
          [r EXCEPT !.pc = "updateAvailability"] @@ [result |-> Len(bookings) + 1]]
    /\ UNCHANGED <<is_available, payments, intents, events>>

\* UPDATE availability SET is_available = false WHERE <covers>; 201
CreateBookingClaim(i) ==
    LET r == reqs[i] IN
    /\ r.op = "createBooking" /\ r.pc = "updateAvailability"
    /\ is_available' = UpdateAvailability(is_available, FALSE, r.service_id,
                                          r.booking_date, r.start_time, r.end_time)
    /\ reqs' = [reqs EXCEPT ![i] = RespondCreate(r, 201, "Booking created successfully")]
    /\ UNCHANGED <<bookings, payments, intents, events>>

\* a pool.query of the handler rejects: the catch block answers 500 and nothing
\* is rolled back
CreateBookingStoreError(i) ==
    LET r == reqs[i] IN
    /\ r.op = "createBooking" /\ InFlight(r)
    /\ reqs' = [reqs EXCEPT ![i] = RespondCreate(r, 500, "Failed to create booking")]
    /\ UNCHANGED <<is_available, bookings, payments, intents, events>>

----------------------------------------------------------------------------
(* Booking mutations: PATCH /bookings/:id/status, PUT /bookings/:id,       *)
(* DELETE /bookings/:id                                                    *)

\* "Check if booking exists and user has permission": the query is chosen by role
BookingForCaller(rows, id, user) ==
    LET role == RoleOf(user) IN
    {b \in DOMAIN rows :
        /\ b = id
        /\ IF role = "customer" THEN rows[b].customer_id = user.id
           ELSE IF role = "vendor" THEN rows[b].vendor_id = user.id
           ELSE TRUE}

\* the columns of the row a handler keeps in `booking`
Snapshot(row) ==
    [service_id |-> row.service_id, booking_date |-> row.booking_date,
     start_time |-> row.start_time, end_time |-> row.end_time]

validStatuses == {"pending", "confirmed", "in_progress", "completed", "cancelled"}

\* the status values a PATCH body may carry: the valid ones and 'rejected'
RequestedStatuses == validStatuses \cup {"rejected"}

BookingIds == 1..MaxBookings

\* requireVendorOrAdmin, status validation, bookingCheck
UpdateStatusStart(i, u, id, status) ==
    LET user == ReqUser(u)
        r0   == [op |-> "updateStatus", pc |-> "start"]
        found == BookingForCaller(bookings, id, user)
    IN
    /\ Free(i)
    /\ reqs' = Launch(i,
          IF ~requireUserType({"vendor", "admin"}, user)
          THEN Respond(r0, 403, "Insufficient permissions")
          ELSE IF status \notin validStatuses
          THEN [op |-> "updateStatus", pc |-> "done", id |-> id, status |-> status,
                res |-> [code |-> 400, message |-> "Invalid status"]]
          ELSE IF found = {}
          THEN Respond(r0, 404, "Booking not found or access denied")
          ELSE [op |-> "updateStatus", pc |-> "update", id |-> id, status |-> status,
                userId |-> user.id, booking |-> Snapshot(bookings[id])])
    /\ UNCHANGED <<is_available, bookings, payments, intents, events>>

\* UPDATE bookings SET status = $1 WHERE id = $2
UpdateStatusWrite(i) ==
    LET r == reqs[i] IN
    /\ r.op = "updateStatus" /\ r.pc = "update"
    /\ bookings' = SetBookingStatus(bookings, r.id, r.status)
    /\ reqs' = [reqs EXCEPT ![i] =
          IF r.status = "cancelled" THEN [r EXCEPT !.pc = "release"]
          ELSE Respond(r, 200, "Booking status updated successfully")]
    /\ UNCHANGED <<is_available, payments, intents, events>>

\* "If status is cancelled, make the time slot available again"
UpdateStatusRelease(i) ==
    LET r == reqs[i] IN
    /\ r.op = "updateStatus" /\ r.pc = "release"
    /\ is_available' = UpdateAvailability(is_available, TRUE, r.booking.service_id,
            r.booking.booking_date, r.booking.start_time, r.booking.end_time)
    /\ reqs' = [reqs EXCEPT ![i] = Respond(r, 200, "Booking status updated successfully")]
    /\ UNCHANGED <<bookings, payments, intents, events>>

\* booking_date !== booking.booking_date || start_time !== ... || end_time !== ...
\* The body carries an ISO date string and HH:MM strings; what the row carries
\* depends on the store's driver (a Date object and HH:MM:SS strings for DATE and
\* TIME columns).  `same_repr` says whether the store returns the row's date and
\* times in the request's representation: if it does not, !== holds for equal values.
DateTimeChanged(booking, booking_date, start_time, end_time, same_repr) ==
    \/ ~same_repr
    \/ booking_date # booking.booking_date
    \/ start_time # booking.start_time
    \/ end_time # booking.end_time

\* bookingCheck and the status guard of PUT /:id
EditStart(i, u, id, booking_date, start_time, end_time, total_amount, same_repr) ==
    LET user == ReqUser(u)
        r0   == [op |-> "edit", pc |-> "start"]
        found == BookingForCaller(bookings, id, user)
    IN
    /\ Free(i)
    /\ reqs' = Launch(i,
          IF found = {}
          THEN Respond(r0, 404, "Booking not found or access denied")
          ELSE IF bookings[id].status \notin {"pending", "confirmed"}
          THEN Respond(r0, 400, "Cannot update booking with status")
          ELSE [op |-> "edit",
                pc |-> IF DateTimeChanged(bookings[id], booking_date, start_time,
                                          end_time, same_repr)
                       THEN "availabilityCheck" ELSE "update",
                id |-> id, booking_date |-> booking_date,
                start_time |-> start_time, end_time |-> end_time,
                total_amount |-> total_amount, userId |-> user.id,
                booking |-> Snapshot(bookings[id])])
    /\ UNCHANGED <<is_available, bookings, payments, intents, events>>

EditAvailabilityCheck(i) ==
    LET r == reqs[i] IN
    /\ r.op = "edit" /\ r.pc = "availabilityCheck"
    /\ reqs' = [reqs EXCEPT ![i] =
          IF availabilityCheck(is_available, r.booking.service_id, r.booking_date,
                               r.start_time, r.end_time) = {}
          THEN Respond(r, 400, "Requested time slot is not available")
          ELSE [r EXCEPT !.pc = "releaseOld"]]
    /\ UNCHANGED <<is_available, bookings, payments, intents, events>>

\* "Make the old time slot available again"
EditReleaseOld(i) ==
    LET r == reqs[i] IN
    /\ r.op = "edit" /\ r.pc = "releaseOld"
    /\ is_available' = UpdateAvailability(is_available, TRUE, r.booking.service_id,
            r.booking.booking_date, r.booking.start_time, r.booking.end_time)
    /\ reqs' = [reqs EXCEPT ![i].pc = "claimNew"]
    /\ UNCHANGED <<bookings, payments, intents, events>>

\* "Mark the new time slot as booked"
EditClaimNew(i) ==
    LET r == reqs[i] IN
    /\ r.op = "edit" /\ r.pc = "claimNew"
    /\ is_available' = UpdateAvailability(is_available, FALSE, r.booking.service_id,
            r.booking_date, r.start_time, r.end_time)
    /\ reqs' = [reqs EXCEPT ![i].pc = "update"]
    /\ UNCHANGED <<bookings, payments, intents, events>>

\* UPDATE bookings SET booking_date = $1, start_time = $2, end_time = $3,
\*   special_requests = $4, total_amount = $5 WHERE id = $6
EditWrite(i) ==
    LET r == reqs[i] IN
    /\ r.op = "edit" /\ r.pc = "update"
    /\ bookings' = [bookings EXCEPT ![r.id] =
            [@ EXCEPT !.booking_date = r.booking_date,
                      !.start_time = r.start_time, !.end_time = r.end_time,
                      !.total_amount = r.total_amount]]
    /\ reqs' = [reqs EXCEPT ![i] = Respond(r, 200, "Booking updated successfully")]
    /\ UNCHANGED <<is_available, payments, intents, events>>

\* bookingCheck and the status guard of DELETE /:id
CancelStart(i, u, id) ==
    LET user == ReqUser(u)
        r0   == [op |-> "cancel", pc |-> "start"]
        found == BookingForCaller(bookings, id, user)
    IN
    /\ Free(i)
    /\ reqs' = Launch(i,
          IF found = {}
          THEN Respond(r0, 404, "Booking not found or access denied")
          ELSE IF bookings[id].status \notin {"pending", "confirmed"}
          THEN Respond(r0, 400, "Cannot cancel booking with status")
          ELSE [op |-> "cancel", pc |-> "update", id |-> id, userId |-> user.id,
                booking |-> Snapshot(bookings[id])])
    /\ UNCHANGED <<is_available, bookings, payments, intents, events>>

\* UPDATE bookings SET status = 'cancelled' WHERE id = $2
CancelWrite(i) ==
    LET r == reqs[i] IN
    /\ r.op = "cancel" /\ r.pc = "update"
    /\ bookings' = SetBookingStatus(bookings, r.id, "cancelled")
    /\ reqs' = [reqs EXCEPT ![i].pc = "release"]
    /\ UNCHANGED <<is_available, payments, intents, events>>

\* "Make the time slot available again"
CancelRelease(i) ==
    LET r == reqs[i] IN
    /\ r.op = "cancel" /\ r.pc = "release"
    /\ is_available' = UpdateAvailability(is_available, TRUE, r.booking.service_id,
            r.booking.booking_date, r.booking.start_time, r.booking.end_time)
    /\ reqs' = [reqs EXCEPT ![i] = Respond(r, 200, "Booking cancelled successfully")]
    /\ UNCHANGED <<bookings, payments, intents, events>>

\* a pool.query of PATCH /:id/status, PUT /:id or DELETE /:id rejects: catch, 500
UpdateStatusStoreError(i) ==
    LET r == reqs[i] IN
    /\ r.op = "updateStatus" /\ InFlight(r)
    /\ reqs' = [reqs EXCEPT ![i] = Respond(r, 500, "Failed to update booking status")]
    /\ UNCHANGED <<is_available, bookings, payments, intents, events>>

EditStoreError(i) ==
    LET r == reqs[i] IN
    /\ r.op = "edit" /\ InFlight(r)
    /\ reqs' = [reqs EXCEPT ![i] = Respond(r, 500, "Failed to update booking")]
    /\ UNCHANGED <<is_available, bookings, payments, intents, events>>

CancelStoreError(i) ==
    LET r == reqs[i] IN
    /\ r.op = "cancel" /\ InFlight(r)
    /\ reqs' = [reqs EXCEPT ![i] = Respond(r, 500, "Failed to cancel booking")]
    /\ UNCHANGED <<is_available, bookings, payments, intents, events>>

----------------------------------------------------------------------------
(* The payment gateway, as the engine sees it: stripe.paymentIntents.create, *)
(* stripe.refunds.create and the signed event feed.  An intent is          *)
(* "processing" until the gateway settles it; every change of an intent    *)
(* emits an event, and an emitted event may be delivered at any later time, *)
(* in any order and more than once.                                        *)

IntentIds == 1..MaxPayments

GatewayEvent(type, intent) == [type |-> type, intent |-> intent]

\* the gateway settles a processing intent
GatewaySettle(x, outcome) ==
    /\ x \in DOMAIN intents
    /\ intents[x] = "processing"
    /\ intents' = [intents EXCEPT ![x] = outcome]
    /\ events' = events \cup
          {GatewayEvent(IF outcome = "succeeded" THEN "payment_intent.succeeded"
                        ELSE "payment_intent.payment_failed", x)}
    /\ UNCHANGED <<is_available, bookings, payments, reqs>>

\* the buyer confirms a failed intent again with the gateway and the charge succeeds
GatewayRetry(x) ==
    /\ x \in DOMAIN intents
    /\ intents[x] = "failed"
    /\ intents' = [intents EXCEPT ![x] = "succeeded"]
    /\ events' = events \cup {GatewayEvent("payment_intent.succeeded", x)}
    /\ UNCHANGED <<is_available, bookings, payments, reqs>>

\* a refund issued at the gateway itself (dashboard, dispute)
GatewayRefund(x) ==
    /\ x \in DOMAIN intents
    /\ intents[x] = "succeeded"
    /\ intents' = [intents EXCEPT ![x] = "refunded"]
    /\ events' = events \cup {GatewayEvent("charge.refunded", x)}
    /\ UNCHANGED <<is_available, bookings, payments, reqs>>

----------------------------------------------------------------------------
(* POST /payments/create-intent *)

\* SELECT b.* ... WHERE b.id = $1 AND b.customer_id = $2 AND b.status IN ('pending','confirmed')
\* (the joined services, users and vendor_profiles rows exist for every booking)
PayableBooking(rows, booking_id, customer_id) ==
    {b \in DOMAIN rows :
        /\ b = booking_id
        /\ rows[b].customer_id = customer_id
        /\ rows[b].status \in {"pending", "confirmed"}}

\* a variant of the query below with status = 'completed' only
existingPaymentCompleted(rows, booking_id) ==
    {p \in DOMAIN rows : rows[p].booking_id = booking_id
                         /\ rows[p].status = "completed"}

\* SELECT * FROM payments WHERE booking_id = $1 AND status IN ('pending','completed')
existingPayment(rows, booking_id) ==
    {p \in DOMAIN rows : rows[p].booking_id = booking_id
                         /\ rows[p].status \in {"pending", "completed"}}

\* intents the gateway may still take, given the create-intent calls in flight
PaymentRoom ==
    Len(intents)
      + Cardinality({j \in ReqIds : reqs[j].op = "createIntent" /\ InFlight(reqs[j])
                                    /\ reqs[j].pc \in {"existingPayment", "createIntent"}})
      < MaxPayments

\* the orders in which a SELECT without ORDER BY may return rows
RowOrders == {"asc", "desc"}

\* the order of the requests whose amount plays no part
HeapOrder == {"asc"}

\* rows[0] of a result set returned in the given order
FirstRow(rows, order) ==
    IF order = "asc"
    THEN CHOOSE s \in rows : \A t \in rows : s <= t
    ELSE CHOOSE s \in rows : \A t \in rows : s >= t

\* SELECT price_modifier FROM availability WHERE <covers>
priceModifierRows(booking) ==
    {s \in SlotIds : Covers(availability[s], booking.service_id, booking.booking_date,
                            booking.start_time, booking.end_time)}

\* "Calculate total amount": base_price, times price_modifier of rows[0] if any
totalAmount(booking, order) ==
    IF priceModifierRows(booking) # {}
    THEN booking.base_price
           * availability[FirstRow(priceModifierRows(booking), order)].price_modifier
    ELSE booking.base_price

\* `amount: Math.round(totalAmount * 100)`, for a whole totalAmount
ToCents(amount) == amount * 100

\* the columns of bookingCheck's row that the price read uses
PricedBooking(row) ==
    [service_id |-> row.service_id, booking_date |-> row.booking_date,
     start_time |-> row.start_time, end_time |-> row.end_time,
     base_price |-> services[row.service_id].base_price]

\* requireCustomer and bookingCheck
CreateIntentStart(i, u, booking_id) ==
    LET user == ReqUser(u)
        r0   == [op |-> "createIntent", pc |-> "start"]
    IN
    /\ Free(i)
    /\ PaymentRoom
    /\ reqs' = Launch(i,
          IF ~requireUserType({"customer"}, user)
          THEN Respond(r0, 403, "Insufficient permissions")
          ELSE IF PayableBooking(bookings, booking_id, user.id) = {}
          THEN Respond(r0, 404, "Booking not found or cannot be paid for")
          ELSE [op |-> "createIntent", pc |-> "existingPayment",
                booking_id |-> booking_id, customer_id |-> user.id,
                vendor_id |-> bookings[booking_id].vendor_id,
                booking |-> PricedBooking(bookings[booking_id])])
    /\ UNCHANGED <<is_available, bookings, payments, intents, events>>

\* "Check if payment already exists", then the price_modifier read, whose
\* rows come in the given order
CreateIntentExistingPayment(i, order) ==
    LET r == reqs[i] IN
    /\ r.op = "createIntent" /\ r.pc = "existingPayment"
    /\ reqs' = [reqs EXCEPT ![i] =
          IF existingPayment(payments, r.booking_id) # {}
          THEN Respond(r, 400, "Payment already exists for this booking")
          ELSE [op |-> "createIntent", pc |-> "createIntent",
                booking_id |-> r.booking_id, customer_id |-> r.customer_id,
                vendor_id |-> r.vendor_id,
                totalAmount |-> totalAmount(r.booking, order)]]
    /\ UNCHANGED <<is_available, bookings, payments, intents, events>>

\* stripe.paymentIntents.create({..., confirm: true}) returns the intent
CreateIntentGateway(i, status) ==
    LET r == reqs[i] IN
    /\ r.op = "createIntent" /\ r.pc = "createIntent"
    /\ intents' = Append(intents, status)
    /\ events' = IF status = "succeeded"
                 THEN events \cup {GatewayEvent("payment_intent.succeeded", Len(intents) + 1)}
                 ELSE events
    /\ reqs' = [reqs EXCEPT ![i] =
          [op |-> "createIntent", pc |-> "insertPayment",
           booking_id |-> r.booking_id, customer_id |-> r.customer_id,
           vendor_id |-> r.vendor_id, totalAmount |-> r.totalAmount,
           paymentIntent |-> [id |-> Len(intents) + 1, status |-> status,
                              amount |-> ToCents(r.totalAmount)]]]
    /\ UNCHANGED <<is_available, bookings, payments>>

\* stripe.paymentIntents.create throws: the catch block answers 400 or 500
CreateIntentGatewayError(i) ==
    LET r == reqs[i] IN
    /\ r.op = "createIntent" /\ r.pc = "createIntent"
    /\ reqs' = [reqs EXCEPT ![i] = Respond(r, 500, "Failed to create payment intent")]
    /\ UNCHANGED <<is_available, bookings, payments, intents, events>>

\* stripe.paymentIntents.create throws a connection error or times out after
\* the gateway accepted the request: the intent exists at the gateway, the
\* handler has no paymentIntent and its catch block answers 500
CreateIntentGatewayTimeout(i, status) ==
    LET r == reqs[i] IN
    /\ r.op = "createIntent" /\ r.pc = "createIntent"
    /\ intents' = Append(intents, status)
    /\ events' = IF status = "succeeded"
                 THEN events \cup {GatewayEvent("payment_intent.succeeded", Len(intents) + 1)}
                 ELSE events
    /\ reqs' = [reqs EXCEPT ![i] = Respond(r, 500, "Failed to create payment intent")]
    /\ UNCHANGED <<is_available, bookings, payments>>

\* INSERT INTO payments (...) VALUES (..., paymentIntent.id, 'pending')
CreateIntentInsert(i) ==
    LET r == reqs[i] IN
    /\ r.op = "createIntent" /\ r.pc = "insertPayment"
    /\ payments' = Append(payments,
          [booking_id |-> r.booking_id, customer_id |-> r.customer_id,
           vendor_id |-> r.vendor_id, amount |-> r.totalAmount,
           stripe_payment_intent_id |-> r.paymentIntent.id, status |-> "pending"])
    /\ reqs' = [reqs EXCEPT ![i] =
          IF r.paymentIntent.status = "succeeded"
          THEN [op |-> "createIntent", pc |-> "confirmBooking",
                booking_id |-> r.booking_id, payment_id |-> Len(payments) + 1]
          ELSE Respond(r, 200, "Payment intent created successfully")]
    /\ UNCHANGED <<is_available, bookings, intents, events>>

\* UPDATE bookings SET status = 'confirmed' WHERE id = booking_id
CreateIntentConfirmBooking(i) ==
    LET r == reqs[i] IN
    /\ r.op = "createIntent" /\ r.pc = "confirmBooking"
    /\ bookings' = SetBookingStatus(bookings, r.booking_id, "confirmed")
    /\ reqs' = [reqs EXCEPT ![i].pc = "completePayment"]
    /\ UNCHANGED <<is_available, payments, intents, events>>

\* UPDATE payments SET status = 'completed' WHERE id = paymentResult.rows[0].id
CreateIntentCompletePayment(i) ==
    LET r == reqs[i] IN
    /\ r.op = "createIntent" /\ r.pc = "completePayment"
    /\ payments' = SetPaymentStatus(payments, r.payment_id, "completed")
    /\ reqs' = [reqs EXCEPT ![i] = Respond(r, 200, "Payment intent created successfully")]
    /\ UNCHANGED <<is_available, bookings, intents, events>>

\* a pool.query of create-intent rejects: the catch block answers 500
CreateIntentStoreError(i) ==
    LET r == reqs[i] IN
    /\ r.op = "createIntent" /\ InFlight(r) /\ r.pc # "createIntent"
    /\ reqs' = [reqs EXCEPT ![i] = Respond(r, 500, "Failed to create payment intent")]
    /\ UNCHANGED <<is_available, bookings, payments, intents, events>>

----------------------------------------------------------------------------
(* POST /payments/webhook *)

\* a variant of the update below that takes a repeated status as a reversal
WebhookUpdatePaymentsToggle(rows, status, intent) ==
    [p \in DOMAIN rows |->
        IF rows[p].stripe_payment_intent_id = intent
        THEN [rows[p] EXCEPT !.status = IF @ = status THEN "pending" ELSE status]
        ELSE rows[p]]

\* UPDATE payments SET status = $1 WHERE stripe_payment_intent_id = $2
WebhookUpdatePayments(rows, status, intent) ==
    [p \in DOMAIN rows |->
        IF rows[p].stripe_payment_intent_id = intent
        THEN [rows[p] EXCEPT !.status = status] ELSE rows[p]]

\* SELECT booking_id FROM payments WHERE stripe_payment_intent_id = $2
BookingOfIntent(rows, intent) ==
    {rows[p].booking_id : p \in {q \in DOMAIN rows : rows[q].stripe_payment_intent_id = intent}}

\* UPDATE bookings SET status = $1 WHERE id = (SELECT booking_id FROM payments WHERE ...)
WebhookUpdateBookings(brows, prows, status, intent) ==
    [b \in DOMAIN brows |->
        IF b \in BookingOfIntent(prows, intent)
        THEN [brows[b] EXCEPT !.status = status] ELSE brows[b]]

\* a variant of the table below in which a failed intent leaves the payment pending
PaymentStatusForKeepPending(type) ==
    CASE type = "payment_intent.succeeded" -> "completed"
      [] type = "payment_intent.payment_failed" -> "pending"
      [] type = "charge.refunded" -> "refunded"

\* the status each handled event type writes to the payment and to the booking
PaymentStatusFor(type) ==
    CASE type = "payment_intent.succeeded" -> "completed"
      [] type = "payment_intent.payment_failed" -> "failed"
      [] type = "charge.refunded" -> "refunded"

BookingStatusFor(type) ==
    CASE type = "payment_intent.succeeded" -> "confirmed"
      [] type = "charge.refunded" -> "cancelled"

HandledTypes ==
    {"payment_intent.succeeded", "payment_intent.payment_failed", "charge.refunded"}

\* the delivery before this one on worker i was the same event, handled to the end
Redelivery(i, event) ==
    /\ reqs[i].op = "webhook" /\ reqs[i].pc = "done"
    /\ "event" \in DOMAIN reqs[i]
    /\ reqs[i].event = event

\* a variant of the acknowledgement below that reports a failure
receivedAsFailure == [code |-> 500, message |-> "Webhook processing failed"]

\* res.json({received: true})
received == [code |-> 200, message |-> "received"]

\* res.json({received: true}) of a handled event: the record keeps which event it was
RespondWebhook(r) ==
    [r EXCEPT !.pc = "done", !.res = received]

\* what constructEvent gives for a payload whose signature does not verify: it throws
NoEvent == [type |-> "none", intent |-> 0]

\* a variant of constructEvent below that parses the payload without verifying it
constructEventUnverified(signed, event) == event

\* stripe.webhooks.constructEvent(req.body, sig, STRIPE_WEBHOOK_SECRET)
constructEvent(signed, event) == IF signed THEN event ELSE NoEvent

\* stripe.webhooks.constructEvent, then switch (event.type)
WebhookStart(i, signed, event) ==
    LET r0 == [op |-> "webhook", pc |-> "start"]
        ev == constructEvent(signed, event)
    IN
    /\ Free(i)
    /\ reqs' = Launch(i,
          IF ev = NoEvent
          THEN Respond(r0, 400, "Webhook Error")
          ELSE IF ev.type \notin HandledTypes
          THEN [op |-> "webhook", pc |-> "done", event |-> ev, signed |-> signed,
                repeat |-> Redelivery(i, ev), res |-> received]
          ELSE [op |-> "webhook", pc |-> "updatePayment", event |-> ev,
                signed |-> signed,
                repeat |-> Redelivery(i, ev), res |-> NoRes])
    /\ UNCHANGED <<is_available, bookings, payments, intents, events>>

\* first query of the case
WebhookPayment(i) ==
    LET r == reqs[i] IN
    /\ r.op = "webhook" /\ r.pc = "updatePayment"
    /\ payments' = WebhookUpdatePayments(payments, PaymentStatusFor(r.event.type),
                                         r.event.intent)
    /\ reqs' = [reqs EXCEPT ![i] =
          IF r.event.type = "payment_intent.payment_failed"
          THEN RespondWebhook(r)
          ELSE [r EXCEPT !.pc = "updateBooking"]]
    /\ UNCHANGED <<is_available, bookings, intents, events>>

\* second query of the succeeded and refunded cases
WebhookBooking(i) ==
    LET r == reqs[i] IN
    /\ r.op = "webhook" /\ r.pc = "updateBooking"
    /\ bookings' = WebhookUpdateBookings(bookings, payments,
                        BookingStatusFor(r.event.type), r.event.intent)
    /\ reqs' = [reqs EXCEPT ![i] = RespondWebhook(r)]
    /\ UNCHANGED <<is_available, payments, intents, events>>

\* a pool.query of the case rejects: res.status(500).json({error})
WebhookStoreError(i) ==
    LET r == reqs[i] IN
    /\ r.op = "webhook" /\ InFlight(r)
    /\ reqs' = [reqs EXCEPT ![i] = Respond(r, 500, "Webhook processing failed")]
    /\ UNCHANGED <<is_available, bookings, payments, intents, events>>

----------------------------------------------------------------------------
(* POST /payments/:id/refund *)

PaymentIds == 1..MaxPayments

\* "Check if payment exists and user has permission": the query is chosen by role
PaymentForCaller(rows, id, user) ==
    {p \in DOMAIN rows :
        /\ p = id
        /\ IF RoleOf(user) = "vendor" THEN rows[p].vendor_id = user.id ELSE TRUE}

\* a variant of the guard below that also lets a pending payment through
RefundAllowedOrPending(payment) == payment.status \in {"completed", "pending"}

\* "Only allow refunds for completed payments": payment.status !== 'completed' is refused
RefundAllowed(payment) == payment.status = "completed"

\* requireVendor, paymentCheck and the status guard
RefundStart(i, u, id) ==
    LET user == ReqUser(u)
        r0   == [op |-> "refund", pc |-> "start"]
    IN
    /\ Free(i)
    /\ reqs' = Launch(i,
          IF ~requireUserType({"vendor"}, user)
          THEN [op |-> "refund", pc |-> "done", userId |-> user.id,
                res |-> [code |-> 403, message |-> "Insufficient permissions"]]
          ELSE IF PaymentForCaller(payments, id, user) = {}
          THEN Respond(r0, 404, "Payment not found or access denied")
          ELSE IF ~RefundAllowed(payments[id])
          THEN [op |-> "refund", pc |-> "done", id |-> id,
                res |-> [code |-> 400, message |-> "Can only refund completed payments"]]
          ELSE [op |-> "refund", pc |-> "gatewayRefund", id |-> id,
                userId |-> user.id,
                payment |-> [booking_id |-> payments[id].booking_id,
                             stripe_payment_intent_id |->
                                 payments[id].stripe_payment_intent_id]])
    /\ UNCHANGED <<is_available, bookings, payments, intents, events>>

\* stripe.refunds.create: the gateway refunds a succeeded charge once and
\* throws for an intent it has already refunded
RefundGateway(i) ==
    LET r == reqs[i]
        x == r.payment.stripe_payment_intent_id
    IN
    /\ r.op = "refund" /\ r.pc = "gatewayRefund"
    /\ IF intents[x] = "succeeded"
       THEN /\ intents' = [intents EXCEPT ![x] = "refunded"]
            /\ events' = events \cup {GatewayEvent("charge.refunded", x)}
            /\ reqs' = [reqs EXCEPT ![i].pc = "updatePayment"]
       ELSE /\ reqs' = [reqs EXCEPT ![i] = Respond(r, 500, "Failed to process refund")]
            /\ UNCHANGED <<intents, events>>
    /\ UNCHANGED <<is_available, bookings, payments>>

\* UPDATE payments SET status = 'refunded' WHERE id = $2
RefundPayment(i) ==
    LET r == reqs[i] IN
    /\ r.op = "refund" /\ r.pc = "updatePayment"
    /\ payments' = SetPaymentStatus(payments, r.id, "refunded")
    /\ reqs' = [reqs EXCEPT ![i].pc = "updateBooking"]
    /\ UNCHANGED <<is_available, bookings, intents, events>>

\* UPDATE bookings SET status = 'cancelled' WHERE id = payment.booking_id
RefundBooking(i) ==
    LET r == reqs[i] IN
    /\ r.op = "refund" /\ r.pc = "updateBooking"
    /\ bookings' = SetBookingStatus(bookings, r.payment.booking_id, "cancelled")
    /\ reqs' = [reqs EXCEPT ![i].pc = "selectBooking"]
    /\ UNCHANGED <<is_available, payments, intents, events>>

\* SELECT service_id, booking_date, start_time, end_time FROM bookings WHERE id = $1
RefundSelectBooking(i) ==
    LET r == reqs[i] IN
    /\ r.op = "refund" /\ r.pc = "selectBooking"
    /\ reqs' = [reqs EXCEPT ![i] =
          [op |-> "refund", pc |-> "release",
           b |-> Snapshot(bookings[r.payment.booking_id])]]
    /\ UNCHANGED <<is_available, bookings, payments, intents, events>>

\* "Make the time slot available again"
RefundRelease(i) ==
    LET r == reqs[i] IN
    /\ r.op = "refund" /\ r.pc = "release"
    /\ is_available' = UpdateAvailability(is_available, TRUE, r.b.service_id,
            r.b.booking_date, r.b.start_time, r.b.end_time)
    /\ reqs' = [reqs EXCEPT ![i] = Respond(r, 200, "Refund processed successfully")]
    /\ UNCHANGED <<bookings, payments, intents, events>>

\* a pool.query of the refund rejects after the gateway call: catch, 500
RefundStoreError(i) ==
    LET r == reqs[i] IN
    /\ r.op = "refund" /\ InFlight(r) /\ r.pc # "gatewayRefund"
    /\ reqs' = [reqs EXCEPT ![i] = Respond(r, 500, "Failed to process refund")]
    /\ UNCHANGED <<is_available, bookings, payments, intents, events>>

----------------------------------------------------------------------------

Init ==
    /\ is_available = [s \in SlotIds |-> TRUE]
    /\ bookings = << >>
    /\ payments = << >>
    /\ intents = << >>
    /\ events = {}
    /\ reqs = [i \in ReqIds |-> Idle]

ServiceIds == DOMAIN services \cup {"s0"}

Customers == {u \in UserIds : user_type[u] = "customer"}

\* the steps of each handler for the request i; a specification chooses the
\* callers and the inputs its requests are drawn from
CreateBookingBegin(i, callers, offerings, ivs, amounts) ==
    \E u \in callers, s \in offerings, d \in Dates, iv \in ivs, a \in amounts :
        CreateBookingStart(i, u, s, d, iv[1], iv[2], a)

CreateBookingRun(i) ==
    \/ CreateBookingAvailabilityCheck(i)
    \/ CreateBookingExistingCheck(i)
    \/ CreateBookingInsert(i)
    \/ CreateBookingClaim(i)

UpdateStatusStep(i, callers) ==
    \/ \E u \in callers, id \in BookingIds, st \in RequestedStatuses :
          UpdateStatusStart(i, u, id, st)
    \/ UpdateStatusWrite(i)
    \/ UpdateStatusRelease(i)

EditStep(i, callers, ivs, amounts) ==
    \/ \E u \in callers, id \in BookingIds, d \in Dates, iv \in ivs, a \in amounts,
          same_repr \in BOOLEAN :
          EditStart(i, u, id, d, iv[1], iv[2], a, same_repr)
    \/ EditAvailabilityCheck(i)
    \/ EditReleaseOld(i)
    \/ EditClaimNew(i)
    \/ EditWrite(i)

CancelStep(i, callers) ==
    \/ \E u \in callers, id \in BookingIds : CancelStart(i, u, id)
    \/ CancelWrite(i)
    \/ CancelRelease(i)

CreateIntentStep(i, callers, orders) ==
    \/ \E u \in callers, b \in BookingIds : CreateIntentStart(i, u, b)
    \/ \E order \in orders : CreateIntentExistingPayment(i, order)
    \/ \E st \in {"succeeded", "processing"} : CreateIntentGateway(i, st)
    \/ CreateIntentGatewayError(i)
    \/ CreateIntentInsert(i)
    \/ CreateIntentConfirmBooking(i)
    \/ CreateIntentCompletePayment(i)

\* a delivery is a signed event the gateway emitted, a signed event of a kind the
\* handler does not know, or a payload whose signature does not verify
WebhookStep(i) ==
    \/ \E e \in events : WebhookStart(i, TRUE, e)
    \/ \E x \in DOMAIN intents :
          WebhookStart(i, TRUE, GatewayEvent("payment_intent.created", x))
    \/ \E x \in IntentIds, t \in HandledTypes : WebhookStart(i, FALSE, GatewayEvent(t, x))
    \/ WebhookPayment(i)
    \/ WebhookBooking(i)

RefundStep(i, callers) ==
    \/ \E u \in callers, p \in PaymentIds : RefundStart(i, u, p)
    \/ RefundGateway(i)
    \/ RefundPayment(i)
    \/ RefundBooking(i)
    \/ RefundSelectBooking(i)
    \/ RefundRelease(i)

Gateway ==
    \/ \E x \in IntentIds, o \in {"succeeded", "failed"} : GatewaySettle(x, o)
    \/ \E x \in IntentIds : GatewayRetry(x)
    \/ \E x \in IntentIds : GatewayRefund(x)

\* Booking lifecycle, one request at a time: every booking handler with every
\* caller, offering and interval; each runs to its response before the next starts
Next ==
    \/ CreateBookingBegin(1, UserIds, ServiceIds, Intervals, ListPrice)
    \/ CreateBookingRun(1)
    \/ UpdateStatusStep(1, UserIds)
    \/ EditStep(1, UserIds, Intervals, ListPrice)
    \/ CancelStep(1, UserIds)

Spec == Init /\ [][Next]_vars

\* the intervals that availability row 1 covers and row 2 does not
OnlyRowOne == {iv \in Intervals : \A s \in SlotIds :
                  Covers(availability[s], "s1", "d1", iv[1], iv[2]) <=> s = 1}

\* Concurrent POST /bookings requests of the buyers for intervals of s1 that one
\* availability row covers: MaxInflight requests run at once, interleaved query by query
NextCreate ==
    \E i \in ReqIds :
        \/ CreateBookingBegin(i, Customers, {"s1"}, OnlyRowOne, ListPrice)
        \/ CreateBookingRun(i)

SpecCreate == Init /\ [][NextCreate]_vars

\* Payment reconciliation, one request at a time, with the gateway settling
\* intents and emitting events at any moment: the buyer c1 books the interval
\* [2,3) of s1 and pays; the provider, the buyer and the gateway act on it
NextPay ==
    \/ (Len(bookings) < MaxPaidBookings
          /\ CreateBookingBegin(1, {"c1"}, {"s1"}, {<<2, 3>>}, ListPrice))
    \/ CreateBookingRun(1)
    \/ UpdateStatusStep(1, {"v1"})
    \/ CancelStep(1, {"c1"})
    \/ CreateIntentStep(1, {"c1", "c2"}, HeapOrder)
    \/ WebhookStep(1)
    \/ RefundStep(1, {"v1", "c1"})
    \/ Gateway

SpecPay == Init /\ [][NextPay]_vars

\* A status update racing an edit or a cancel: worker 1 creates bookings and runs
\* the provider's PATCH, worker 2 runs the buyer's PUT and DELETE
BackToBack == {<<1, 2>>, <<2, 3>>}

NextEditRace ==
    \/ CreateBookingBegin(1, {"c1"}, {"s1"}, BackToBack, ListPrice)
    \/ CreateBookingRun(1)
    \/ UpdateStatusStep(1, {"v1"})
    \/ EditStep(2, {"c1"}, BackToBack, ListPrice)
    \/ CancelStep(2, {"c1"})

SpecEditRace == Init /\ [][NextEditRace]_vars

\* Concurrent POST /payments/create-intent calls of the buyer c1
NextIntentRace ==
    \/ CreateBookingBegin(1, {"c1"}, {"s1"}, {<<2, 3>>}, ListPrice)
    \/ CreateBookingRun(1)
    \/ \E i \in ReqIds : CreateIntentStep(i, {"c1"}, HeapOrder)

SpecIntentRace == Init /\ [][NextIntentRace]_vars

\* The booking lifecycle of Next with a store that may reject any query of a
\* handler in flight
NextFault ==
    \/ Next
    \/ CreateBookingStoreError(1)
    \/ UpdateStatusStoreError(1)
    \/ EditStoreError(1)
    \/ CancelStoreError(1)

SpecFault == Init /\ [][NextFault]_vars

\* The payment reconciliation of NextPay with a store that may reject any query
\* of a handler in flight
NextPayFault ==
    \/ NextPay
    \/ CreateBookingStoreError(1)
    \/ UpdateStatusStoreError(1)
    \/ CancelStoreError(1)
    \/ CreateIntentStoreError(1)
    \/ WebhookStoreError(1)
    \/ RefundStoreError(1)

SpecPayFault == Init /\ [][NextPayFault]_vars

\* The payment reconciliation of NextPay with a gateway whose create call may
\* be lost on the way back: the intent is created and the handler sees an error
NextPayTimeout ==
    \/ NextPay
    \/ \E st \in {"succeeded", "processing"} : CreateIntentGatewayTimeout(1, st)

SpecPayTimeout == Init /\ [][NextPayTimeout]_vars

\* the intervals of the requests, and two that reach past the availability rows:
\* [2,4) is covered in part, [3,4) not at all
WideIntervals == Intervals \cup {<<2, 4>>, <<3, 4>>}

\* The buyers book, edit and cancel intervals of s1 that the availability rows
\* cover, cover in part or do not cover, one request at a time
NextSlots ==
    \/ CreateBookingBegin(1, Customers, {"s1"}, WideIntervals, ListPrice)
    \/ CreateBookingRun(1)
    \/ EditStep(1, {"c1"}, WideIntervals, ListPrice)
    \/ CancelStep(1, Customers)

SpecSlots == Init /\ [][NextSlots]_vars

\* A create-intent call of the buyer c1 on worker 1 racing the deliveries of the
\* gateway's events on worker 2, with the gateway settling intents as succeeded
NextEventRace ==
    \/ (Len(bookings) < MaxPaidBookings
          /\ CreateBookingBegin(1, {"c1"}, {"s1"}, {<<2, 3>>}, ListPrice))
    \/ CreateBookingRun(1)
    \/ CreateIntentStep(1, {"c1"}, HeapOrder)
    \/ WebhookStep(2)
    \/ \E x \in IntentIds : GatewaySettle(x, "succeeded")

SpecEventRace == Init /\ [][NextEventRace]_vars

\* Concurrent POST /payments/:id/refund calls of the provider, an administrator
\* and the buyer for the payment of the buyer's booking
NextRefundRace ==
    \/ (Len(bookings) < MaxPaidBookings
          /\ CreateBookingBegin(1, {"c1"}, {"s1"}, {<<2, 3>>}, ListPrice))
    \/ CreateBookingRun(1)
    \/ CreateIntentStep(1, {"c1"}, HeapOrder)
    \/ \E i \in ReqIds : RefundStep(i, {"v1", "a1", "c1"})

SpecRefundRace == Init /\ [][NextRefundRace]_vars

\* The buyer c1 books intervals of s1 and pays for them, up to MaxInflight
\* create-intent calls at a time; the price read may return its rows in any order
NextAmount ==
    \/ CreateBookingBegin(1, {"c1"}, {"s1"}, Intervals, ListPrice)
    \/ CreateBookingRun(1)
    \/ \E i \in ReqIds : CreateIntentStep(i, {"c1"}, RowOrders)

SpecAmount == Init /\ [][NextAmount]_vars

\* The buyer c1 books [1,2) of s1, pays, and edits the booking, one request at a
\* time; the edit may carry another interval and another total_amount
NextPrice ==
    \/ (Len(bookings) < MaxPaidBookings
          /\ CreateBookingBegin(1, {"c1"}, {"s1"}, {<<1, 2>>}, ListPrice))
    \/ CreateBookingRun(1)
    \/ CreateIntentStep(1, {"c1"}, HeapOrder)
    \/ EditStep(1, {"c1"}, BackToBack, Amounts)

SpecPrice == Init /\ [][NextPrice]_vars

----------------------------------------------------------------------------
(* Properties *)

\* [start, end) of a and of b intersect
Overlaps(a, b) == a.start_time < b.end_time /\ b.start_time < a.end_time

ActiveStatuses == {"pending", "confirmed"}

TerminalStatuses == {"completed", "rejected", "cancelled"}

Answered(r) == r.op # "idle" /\ r.pc = "done"

\* C1: of two concurrent createBooking requests for overlapping intervals of the
\* same offering and date, at most one is answered 201 (SpecCreate).
C1_AtMostOneConcurrentCreateSucceeds ==
    \A i, j \in ReqIds :
        ( /\ i # j
          /\ reqs[i].op = "createBooking" /\ Answered(reqs[i]) /\ "conc" \in DOMAIN reqs[i]
          /\ reqs[j].op = "createBooking" /\ Answered(reqs[j]) /\ "conc" \in DOMAIN reqs[j]
          /\ j \in reqs[i].conc
          /\ reqs[i].service_id = reqs[j].service_id
          /\ reqs[i].booking_date = reqs[j].booking_date
          /\ Overlaps(reqs[i], reqs[j]) )
        => ~(reqs[i].res.code = 201 /\ reqs[j].res.code = 201)

\* C2: no two different active (pending or confirmed) bookings of the same
\* offering on the same date have overlapping intervals (Spec).
C2_ExclusiveOccupancy ==
    \A a, b \in DOMAIN bookings :
        ( /\ a # b
          /\ bookings[a].status \in ActiveStatuses
          /\ bookings[b].status \in ActiveStatuses
          /\ bookings[a].service_id = bookings[b].service_id
          /\ bookings[a].booking_date = bookings[b].booking_date )
        => ~Overlaps(bookings[a], bookings[b])

LegalBookingTransitions ==
    {<<"pending", "confirmed">>, <<"confirmed", "completed">>, <<"pending", "rejected">>,
     <<"pending", "cancelled">>, <<"confirmed", "cancelled">>}

\* C3: every step leaves each booking's status as it is or moves it along a
\* legal transition; a terminal status never changes (Spec).
C3_LegalStatusTransitions ==
    [][\A b \in DOMAIN bookings :
          \/ bookings'[b].status = bookings[b].status
          \/ <<bookings[b].status, bookings'[b].status>> \in LegalBookingTransitions]_vars

\* the request i takes this step
StepOf(i) == reqs'[i] # reqs[i]

\* an edit or cancel call that has passed its status guard and has not yet
\* written the booking row itself
BeforeOwnWrite(r) ==
    \/ r.op = "edit" /\ InFlight(r)
    \/ r.op = "cancel" /\ r.pc = "update"

\* C4: a step of an edit or cancel call whose booking is completed, rejected or
\* cancelled at that moment (by another request, since the call has not written
\* the row yet) changes no booking and no slot, and the call is answered 400
\* when it answers (SpecEditRace).
C4_TerminalBookingNotMutated ==
    [][\A i \in ReqIds :
          ( /\ BeforeOwnWrite(reqs[i])
            /\ bookings[reqs[i].id].status \in TerminalStatuses
            /\ StepOf(i) )
          => /\ bookings' = bookings
             /\ is_available' = is_available
             /\ Answered(reqs'[i]) => reqs'[i].res.code = 400]_vars

\* the pending or completed payments of the booking b
LivePayments(b) ==
    {p \in DOMAIN payments : payments[p].booking_id = b
                             /\ payments[p].status \in {"pending", "completed"}}

\* C5: each booking has at most one payment that is pending or completed
\* (SpecIntentRace).
C5_OneLivePaymentPerBooking ==
    \A b \in DOMAIN bookings : Cardinality(LivePayments(b)) <= 1

\* C6: a payment's status changes only from pending, or from completed to
\* refunded (SpecPay).
C6_PaymentStatusMonotone ==
    [][\A p \in DOMAIN payments :
          \/ payments'[p].status = payments[p].status
          \/ payments[p].status = "pending"
          \/ <<payments[p].status, payments'[p].status>> = <<"completed", "refunded">>]_vars

\* a variant of the handling below that skips an event whose payment status is
\* already written
HandleGatewayEventOnce(st, type, intent) ==
    LET prows == WebhookUpdatePayments(st.payments, PaymentStatusFor(type), intent) IN
    IF prows = st.payments THEN st
    ELSE [payments |-> prows,
          bookings |-> IF type = "payment_intent.payment_failed" THEN st.bookings
                       ELSE WebhookUpdateBookings(st.bookings, prows,
                                                  BookingStatusFor(type), intent),
          is_available |-> st.is_available]

\* the two queries of the webhook's case for an event of the given type and
\* intent, run to the end on the tables st
HandleGatewayEvent(st, type, intent) ==
    LET prows == WebhookUpdatePayments(st.payments, PaymentStatusFor(type), intent) IN
    [payments |-> prows,
     bookings |-> IF type = "payment_intent.payment_failed" THEN st.bookings
                  ELSE WebhookUpdateBookings(st.bookings, prows,
                                             BookingStatusFor(type), intent),
     is_available |-> st.is_available]

Tables == [payments |-> payments, bookings |-> bookings, is_available |-> is_available]

C8_LateSucceededKeepsRefund ==
    [][\A i \in ReqIds :
          ( /\ reqs[i].op = "webhook" /\ InFlight(reqs[i])
            /\ reqs[i].event.type = "payment_intent.succeeded"
            /\ StepOf(i) )
          => \A p \in DOMAIN payments :
                payments[p].stripe_payment_intent_id = reqs[i].event.intent
                => /\ payments[p].status = "refunded"
                      => payments'[p].status = "refunded"
                   /\ bookings[payments[p].booking_id].status = "cancelled"
                      => bookings'[payments[p].booking_id].status = "cancelled"]_vars

\* C9: when the webhook has handled a charge-refunded event to the end, the
\* event's payment is refunded, its booking cancelled, and the availability
\* check for the booking's interval finds a slot again (SpecPay).
C9_RefundEventReleasesSlot ==
    [][\A i \in ReqIds :
          ( /\ reqs[i].op = "webhook" /\ InFlight(reqs[i])
            /\ reqs[i].event.type = "charge.refunded"
            /\ Answered(reqs'[i]) )
          => \A p \in DOMAIN payments :
                payments[p].stripe_payment_intent_id = reqs[i].event.intent
                => LET b == bookings'[payments[p].booking_id] IN
                   /\ payments'[p].status = "refunded"
                   /\ b.status = "cancelled"
                   /\ availabilityCheck(is_available', b.service_id, b.booking_date,
                                        b.start_time, b.end_time) # {}]_vars

\* the writes of POST /payments/:id/refund after the gateway call, run to the
\* end on the tables st
ProcessRefund(st, id) ==
    LET b == st.bookings[st.payments[id].booking_id] IN
    [payments |-> SetPaymentStatus(st.payments, id, "refunded"),
     bookings |-> SetBookingStatus(st.bookings, st.payments[id].booking_id, "cancelled"),
     is_available |-> UpdateAvailability(st.is_available, TRUE, b.service_id,
                                         b.booking_date, b.start_time, b.end_time)]

\* C10: in every reachable state, for every completed payment, processRefund
\* and the handling of the charge-refunded event of its intent end in the same
\* tables (SpecPay).
C10_RefundConvergence ==
    \A p \in DOMAIN payments :
        payments[p].status = "completed"
        => ProcessRefund(Tables, p)
             = HandleGatewayEvent(Tables, "charge.refunded",
                                  payments[p].stripe_payment_intent_id)

----------------------------------------------------------------------------
(* Slots and bookings *)

\* no handler invocation is between two of its queries
Quiescent == \A i \in ReqIds : ~InFlight(reqs[i])

\* the availability row s covers the booking row's offering, date and interval
CoversBooking(s, row) ==
    Covers(availability[s], row.service_id, row.booking_date, row.start_time, row.end_time)

\* C11: whenever no request is in flight, every unavailable slot covers a
\* booking that is neither cancelled nor rejected: no slot is unavailable
\* because of bookings that were cancelled, rejected or refunded (SpecPay).
C11_NoStuckSlot ==
    Quiescent =>
        \A s \in SlotIds :
            ~is_available[s] =>
                \E b \in DOMAIN bookings :
                    /\ bookings[b].status \notin {"cancelled", "rejected"}
                    /\ CoversBooking(s, bookings[b])

\* some slot covering the booking row is marked unavailable in avail
Held(avail, row) == \E s \in SlotIds : CoversBooking(s, row) /\ ~avail[s]

\* the step is a query of an edit of the booking b itself
OwnEdit(b) ==
    \E i \in ReqIds :
        StepOf(i) /\ reqs[i].op = "edit" /\ InFlight(reqs[i]) /\ reqs[i].id = b

\* C12: a booking that is pending or confirmed before and after a step, with
\* the same interval, and has a covering slot marked unavailable before the
\* step has one after it, unless the step belongs to an edit of that booking:
\* neither its pending->confirmed transition nor an operation on another
\* booking makes its slot available (Spec).
C12_HeldSlotStaysHeld ==
    [][\A b \in DOMAIN bookings :
          ( /\ bookings[b].status \in ActiveStatuses
            /\ bookings'[b].status \in ActiveStatuses
            /\ Snapshot(bookings'[b]) = Snapshot(bookings[b])
            /\ Held(is_available, bookings[b])
            /\ ~OwnEdit(b) )
          => Held(is_available', bookings[b])]_vars

\* C13: a createBooking call that has ended either answered 201, and then its
\* row exists and a slot covering it is unavailable, or it inserted no row
\* (SpecFault).
C13_CreateBookingAtomic ==
    \A i \in ReqIds :
        (reqs[i].op = "createBooking" /\ Answered(reqs[i]))
        => IF reqs[i].res.code = 201
           THEN /\ "result" \in DOMAIN reqs[i]
                /\ reqs[i].result \in DOMAIN bookings
                /\ \E s \in SlotIds :
                      CoversBooking(s, bookings[reqs[i].result]) /\ ~is_available[s]
           ELSE "result" \notin DOMAIN reqs[i]

----------------------------------------------------------------------------
(* Preconditions of createBooking *)

\* the buyer has a booking on the date, in one of the given statuses, whose
\* interval intersects [start_time, end_time)
SelfOverlap(customer_id, date, start_time, end_time, statuses) ==
    \E b \in DOMAIN bookings :
        /\ bookings[b].customer_id = customer_id
        /\ bookings[b].booking_date = date
        /\ bookings[b].status \in statuses
        /\ bookings[b].start_time < end_time /\ start_time < bookings[b].end_time

\* an availability row of the offering covers the date and interval and is available
SlotOnOffer(service_id, date, start_time, end_time) ==
    \E s \in SlotIds :
        /\ availability[s].service_id = service_id
        /\ availability[s].available_date = date
        /\ availability[s].start_time <= start_time
        /\ availability[s].end_time >= end_time
        /\ is_available[s]

\* C14: a createBooking call whose interval overlaps an active booking of the
\* same buyer on the date is answered with the self-overlap error when it is
\* answered on a precondition, also when no covering slot is available (Spec).
C14_PreconditionOrder ==
    [][\A i \in ReqIds :
          ( /\ reqs[i].op = "createBooking" /\ InFlight(reqs[i])
            /\ Answered(reqs'[i]) /\ reqs'[i].res.code = 400
            /\ SelfOverlap(reqs[i].customer_id, reqs[i].booking_date,
                           reqs[i].start_time, reqs[i].end_time, ActiveStatuses) )
          => reqs'[i].res.message = "You already have a booking for this time slot"]_vars

\* C15: the step on which a createBooking call is answered 404 or 400 changes
\* no booking and no slot, the call has inserted no row before, and the message
\* names a precondition that fails in that state (Spec).
C15_FrameOnPreconditionFailure ==
    [][\A i \in ReqIds :
          ( /\ StepOf(i)
            /\ reqs'[i].op = "createBooking" /\ Answered(reqs'[i])
            /\ reqs'[i].res.code \in {400, 404} )
          => LET r == reqs'[i] IN
             /\ bookings' = bookings
             /\ is_available' = is_available
             /\ "result" \notin DOMAIN r
             /\ r.res.code = 404
                  <=> r.res.message = "Service not found or inactive"
             /\ r.res.message = "Service not found or inactive"
                  => \/ r.service_id \notin DOMAIN services
                     \/ ~services[r.service_id].is_active
             /\ r.res.message = "Cannot book with unverified vendor"
                  => /\ r.service_id \in DOMAIN services
                     /\ services[r.service_id].is_active
                     /\ \/ services[r.service_id].vendor_id \notin DOMAIN vendor_profiles
                        \/ ~vendor_profiles[services[r.service_id].vendor_id].is_verified
             /\ r.res.message = "You already have a booking for this time slot"
                  => SelfOverlap(r.customer_id, r.booking_date, r.start_time, r.end_time,
                                 {"pending", "confirmed", "in_progress"})
             /\ r.res.message = "Requested time slot is not available"
                  => ~SlotOnOffer(r.service_id, r.booking_date, r.start_time, r.end_time)
             /\ r.res.message \in
                  {"Service not found or inactive", "Cannot book with unverified vendor",
                   "You already have a booking for this time slot",
                   "Requested time slot is not available"}]_vars

\* C15 witness: a createBooking call has been answered with the self-overlap
\* error while the buyer's earlier booking and the slots are as they were
C15_Witness ==
    \E i \in ReqIds :
        /\ reqs[i].op = "createBooking" /\ Answered(reqs[i])
        /\ reqs[i].res.message = "You already have a booking for this time slot"
        /\ Len(bookings) = 1
        /\ bookings[1].status = "pending"
        /\ ~is_available[1] /\ is_available[2]

\* C16: no buyer has two different active bookings on the same date whose
\* intervals overlap (SpecCreate).
C16_NoBuyerSelfOverlap ==
    \A a, b \in DOMAIN bookings :
        ( /\ a # b
          /\ bookings[a].customer_id = bookings[b].customer_id
          /\ bookings[a].booking_date = bookings[b].booking_date
          /\ bookings[a].status \in ActiveStatuses
          /\ bookings[b].status \in ActiveStatuses )
        => ~Overlaps(bookings[a], bookings[b])

----------------------------------------------------------------------------
(* Edit of a booking *)

\* every slot covering the interval is unavailable and covers an active booking
\* other than id: releasing the slots of id does not make the interval claimable
TakenByOthers(id, service_id, date, start_time, end_time) ==
    \A s \in SlotIds :
        Covers(availability[s], service_id, date, start_time, end_time)
        => /\ ~is_available[s]
           /\ \E b \in DOMAIN bookings :
                 /\ b # id
                 /\ bookings[b].status \in ActiveStatuses
                 /\ CoversBooking(s, bookings[b])

\* C17: an edit to another interval that has passed its availability check
\* and finds, when it is about to write the slots, that other bookings hold
\* every slot covering the new interval, is aborted: its steps change no slot
\* and no booking (SpecEditRace).
C17_EditAllOrNothing ==
    [][\A i \in ReqIds :
          ( /\ reqs[i].op = "edit" /\ reqs[i].pc = "releaseOld" /\ StepOf(i)
            /\ DateTimeChanged(reqs[i].booking, reqs[i].booking_date,
                               reqs[i].start_time, reqs[i].end_time, TRUE)
            /\ TakenByOthers(reqs[i].id, reqs[i].booking.service_id,
                             reqs[i].booking_date, reqs[i].start_time,
                             reqs[i].end_time) )
          => /\ is_available' = is_available
             /\ bookings' = bookings]_vars

\* the booking b has a payment in status completed
Paid(b) ==
    \E p \in DOMAIN payments :
        payments[p].booking_id = b /\ payments[p].status = "completed"

\* C18: no step changes the total_amount of a booking that has a completed
\* payment (SpecPrice).
C18_PriceFixedAfterPayment ==
    [][\A b \in DOMAIN bookings :
          Paid(b) => bookings'[b].total_amount = bookings[b].total_amount]_vars

----------------------------------------------------------------------------
(* initiatePayment *)

\* the tables and the gateway are as they were
NoEffect == UNCHANGED <<is_available, bookings, payments, intents, events>>

\* C19: a create-intent call goes past its first query only on a booking that
\* exists, is the caller's and is pending or confirmed, and is answered 400
\* 'Payment already exists' exactly when the booking has a pending or completed
\* payment at its check; a 404 or 'Payment already exists' answer comes before
\* the gateway call and its step changes no table, no intent and no event
\* (SpecPay).
C19_RejectedPaymentHasNoEffect ==
    [][\A i \in ReqIds :
          /\ ( /\ StepOf(i) /\ reqs'[i].op = "createIntent" /\ Answered(reqs'[i])
               /\ \/ reqs'[i].res.code = 404
                  \/ reqs'[i].res.message = "Payment already exists for this booking" )
             => /\ NoEffect
                /\ (reqs[i].op = "createIntent" /\ InFlight(reqs[i]))
                      => reqs[i].pc = "existingPayment"
          /\ ( /\ ~InFlight(reqs[i])
               /\ reqs'[i].op = "createIntent" /\ InFlight(reqs'[i]) )
             => /\ reqs'[i].booking_id \in DOMAIN bookings
                /\ bookings[reqs'[i].booking_id].customer_id = reqs'[i].customer_id
                /\ bookings[reqs'[i].booking_id].status \in {"pending", "confirmed"}
          /\ ( /\ reqs[i].op = "createIntent" /\ reqs[i].pc = "existingPayment"
               /\ StepOf(i) )
             => ( LivePayments(reqs[i].booking_id) # {}
                  <=> /\ Answered(reqs'[i])
                      /\ reqs'[i].res.code = 400
                      /\ reqs'[i].res.message = "Payment already exists for this booking" )]_vars

\* C19 witness: a create-intent call has been answered 'Payment already exists'
\* for a booking with one payment and one intent
C19_Witness ==
    \E i \in ReqIds :
        /\ reqs[i].op = "createIntent" /\ Answered(reqs[i])
        /\ reqs[i].res.message = "Payment already exists for this booking"
        /\ Len(payments) = 1 /\ Len(intents) = 1
        /\ payments[1].status \in {"pending", "completed"}

\* C20: a create-intent call that ends after its payment row was inserted
\* leaves the payment pending and the bookings as they were if the intent was
\* not succeeded or the call ended before it confirmed the booking, and leaves
\* the payment completed and the booking confirmed if it ended after it
\* confirmed the booking: no call ends with the booking confirmed by it and its
\* payment still pending (SpecPayFault).
C20_PaymentAndBookingAgree ==
    [][\A i \in ReqIds :
          ( /\ reqs[i].op = "createIntent" /\ InFlight(reqs[i])
            /\ Answered(reqs'[i]) )
          => /\ ( reqs[i].pc = "insertPayment" /\ reqs'[i].res.code = 200 )
                => /\ Len(payments') = Len(payments) + 1
                   /\ payments'[Len(payments')].booking_id = reqs[i].booking_id
                   /\ payments'[Len(payments')].status = "pending"
                   /\ reqs[i].paymentIntent.status # "succeeded"
                   /\ bookings' = bookings
             /\ reqs[i].pc = "confirmBooking"
                => /\ payments'[reqs[i].payment_id].status = "pending"
                   /\ bookings' = bookings
             /\ reqs[i].pc = "completePayment"
                => /\ payments'[reqs[i].payment_id].status = "completed"
                   /\ bookings'[reqs[i].booking_id].status = "confirmed"]_vars

----------------------------------------------------------------------------
(* Gateway errors, events and refunds *)

\* the intents of the gateway that no payments row names
Orphans ==
    {x \in DOMAIN intents :
        \A p \in DOMAIN payments : payments[p].stripe_payment_intent_id # x}

\* C21: a create-intent call whose gateway call ends in an error changes no
\* booking, payment or slot, and a create-intent call has the gateway create an
\* intent only when no intent left without a payment row by an earlier call
\* is charged or may still be charged (SpecPayTimeout; its intents are all of
\* the one booking).
C21_GatewayErrorRetryIsSafe ==
    [][\A i \in ReqIds :
          ( /\ reqs[i].op = "createIntent" /\ reqs[i].pc = "createIntent"
            /\ StepOf(i) )
          => /\ ( Answered(reqs'[i]) /\ reqs'[i].res.code = 500 )
                => UNCHANGED <<is_available, bookings, payments>>
             /\ Len(intents') > Len(intents)
                => \A x \in Orphans : intents[x] \notin {"succeeded", "processing"}]_vars

\* C22: when the handling of a payment_intent.succeeded event is answered 200,
\* the intent of the event has a payment row that is completed and the booking
\* of that row is confirmed, also for an intent whose create call ended in
\* an error at the handler (SpecPayTimeout).
C22_LostCreateResolvedByEvent ==
    [][\A i \in ReqIds :
          ( /\ reqs[i].op = "webhook" /\ InFlight(reqs[i])
            /\ reqs[i].event.type = "payment_intent.succeeded"
            /\ Answered(reqs'[i]) /\ reqs'[i].res.code = 200 )
          => \E p \in DOMAIN payments' :
                /\ payments'[p].stripe_payment_intent_id = reqs[i].event.intent
                /\ payments'[p].status = "completed"
                /\ bookings'[payments'[p].booking_id].status = "confirmed"]_vars

\* the payments rows of booking b
PaymentsOf(rows, b) == {p \in DOMAIN rows : rows[p].booking_id = b}

\* C23: the handling of a payment_intent.payment_failed event sets the payments
\* of its intent to failed, changes no other payment, no booking and no slot and
\* is answered 200; a create-intent call for a booking whose payments are all
\* failed passes the 'Payment already exists' check (SpecPay).
C23_FailedEventAllowsRetry ==
    [][\A i \in ReqIds :
          /\ ( /\ reqs[i].op = "webhook" /\ reqs[i].pc = "updatePayment"
               /\ reqs[i].event.type = "payment_intent.payment_failed"
               /\ StepOf(i) )
             => /\ DOMAIN payments' = DOMAIN payments
                /\ \A p \in DOMAIN payments :
                      payments'[p] =
                         IF payments[p].stripe_payment_intent_id = reqs[i].event.intent
                         THEN [payments[p] EXCEPT !.status = "failed"]
                         ELSE payments[p]
                /\ UNCHANGED <<bookings, is_available>>
                /\ Answered(reqs'[i]) /\ reqs'[i].res.code = 200
          /\ ( /\ reqs[i].op = "createIntent" /\ reqs[i].pc = "existingPayment"
               /\ StepOf(i)
               /\ PaymentsOf(payments, reqs[i].booking_id) # {}
               /\ \A p \in PaymentsOf(payments, reqs[i].booking_id) :
                     payments[p].status = "failed" )
             => /\ reqs'[i].pc = "createIntent"
                /\ NoEffect]_vars

\* C23 witness: the first payment of the pending booking was set to failed by a
\* payment_failed event and a second create-intent call has inserted a payment
\* for the same booking
C23_Witness ==
    /\ Len(payments) = 2
    /\ payments[1].status = "failed"
    /\ payments[2].booking_id = payments[1].booking_id
    /\ payments[2].status = "pending"
    /\ bookings[payments[1].booking_id].status = "pending"
    /\ GatewayEvent("payment_intent.payment_failed", 1) \in events

\* booking b has a payment that is completed or refunded
Captured(prows, b) ==
    \E p \in PaymentsOf(prows, b) : prows[p].status \in {"completed", "refunded"}

\* C24: a step that makes a booking confirmed or completed is the confirm step of
\* a create-intent call whose intent succeeded, or leaves the booking with a
\* payment that is completed or refunded (SpecPay).
C24_ConfirmedOnlyByCapture ==
    [][\A b \in DOMAIN bookings :
          ( /\ bookings'[b].status \in {"confirmed", "completed"}
            /\ bookings'[b].status # bookings[b].status )
          => \/ Captured(payments', b)
             \/ \E i \in ReqIds :
                   /\ reqs[i].op = "createIntent" /\ reqs[i].pc = "confirmBooking"
                   /\ reqs[i].booking_id = b
                   /\ StepOf(i)]_vars

\* C25: a status update to 'rejected' that a provider or an administrator
\* sends for a pending booking is not answered 400 (Spec).
C25_PendingCanBeRejected ==
    [][\A i \in ReqIds :
          ( /\ ~InFlight(reqs[i]) /\ StepOf(i)
            /\ reqs'[i].op = "updateStatus"
            /\ "status" \in DOMAIN reqs'[i]
            /\ reqs'[i].status = "rejected"
            /\ reqs'[i].id \in DOMAIN bookings
            /\ bookings[reqs'[i].id].status = "pending" )
          => ~(Answered(reqs'[i]) /\ reqs'[i].res.code = 400)]_vars

\* the request i starts with this step
Launched(i) == ~InFlight(reqs[i]) /\ StepOf(i)

\* C26: a refund call goes on to the gateway only for a payment that is
\* completed; a refund call for a payment that is pending, failed or refunded
\* is answered 400 at once, and a refund call answered at once changes no
\* table, no intent and no event (SpecPay).
C26_RefundOnlyCompleted ==
    [][\A i \in ReqIds :
          ( Launched(i) /\ reqs'[i].op = "refund" )
          => /\ InFlight(reqs'[i])
                => /\ reqs'[i].id \in DOMAIN payments
                   /\ payments[reqs'[i].id].status = "completed"
             /\ Answered(reqs'[i]) => NoEffect
             /\ ( /\ "id" \in DOMAIN reqs'[i]
                  /\ payments[reqs'[i].id].status \in {"pending", "failed", "refunded"} )
                => /\ Answered(reqs'[i])
                   /\ reqs'[i].res.code = 400]_vars

\* C26 witness: a refund call for a payment that is already refunded has been
\* answered 400
C26_Witness ==
    \E i \in ReqIds :
        /\ reqs[i].op = "refund" /\ Answered(reqs[i])
        /\ "id" \in DOMAIN reqs[i]
        /\ reqs[i].res.code = 400
        /\ payments[reqs[i].id].status = "refunded"

\* C27: a webhook delivery whose signature does not verify is answered 400 at
\* once: a delivery that is handled or acknowledged carries a verified
\* signature, and a delivery answered 400 changes no table, no intent and no
\* event (SpecPay).
C27_UnsignedNotProcessed ==
    [][\A i \in ReqIds :
          ( Launched(i) /\ reqs'[i].op = "webhook" )
          => /\ "signed" \in DOMAIN reqs'[i] => reqs'[i].signed
             /\ "signed" \notin DOMAIN reqs'[i]
                => /\ Answered(reqs'[i])
                   /\ reqs'[i].res.code = 400
                   /\ NoEffect]_vars

\* C27 witness: a delivery has been answered 400 while a pending payment, which
\* the forged event names, exists
C27_Witness ==
    \E i \in ReqIds :
        /\ reqs[i].op = "webhook" /\ Answered(reqs[i])
        /\ reqs[i].res.code = 400
        /\ Len(payments) >= 1
        /\ payments[1].status = "pending"
        /\ bookings[payments[1].booking_id].status = "pending"

\* C28: a verified delivery of an event kind the handler does not know is
\* acknowledged with 200 at once and changes no table, no intent and no event
\* (SpecPay).
C28_UnknownKindIgnored ==
    [][\A i \in ReqIds :
          ( /\ Launched(i) /\ reqs'[i].op = "webhook"
            /\ "event" \in DOMAIN reqs'[i]
            /\ reqs'[i].event.type \notin HandledTypes )
          => /\ Answered(reqs'[i])
             /\ reqs'[i].res.code = 200
             /\ NoEffect]_vars

\* C28 witness: a payment_intent.created delivery has been acknowledged while
\* its intent has a pending payment
C28_Witness ==
    \E i \in ReqIds, p \in DOMAIN payments :
        /\ reqs[i].op = "webhook" /\ Answered(reqs[i])
        /\ "event" \in DOMAIN reqs[i]
        /\ reqs[i].event.type = "payment_intent.created"
        /\ reqs[i].res.code = 200
        /\ payments[p].stripe_payment_intent_id = reqs[i].event.intent
        /\ payments[p].status = "pending"

\* the first query of the webhook's case run on the tables st, the second not run
HandleGatewayEventPartly(st, type, intent) ==
    [st EXCEPT !.payments = WebhookUpdatePayments(st.payments, PaymentStatusFor(type),
                                                  intent)]

----------------------------------------------------------------------------
(* Ownership *)

\* the account u may act on the bookings row: its buyer, its provider, or an
\* administrator
MayActOn(u, row) ==
    \/ user_type[u] = "customer" /\ row.customer_id = u
    \/ user_type[u] = "vendor" /\ row.vendor_id = u
    \/ user_type[u] = "admin"

\* C30: an edit, a cancel or a status update goes past its booking lookup only
\* when the caller is the booking's buyer, the booking's provider or an
\* administrator; the step that answers any other caller changes no booking and
\* no slot (Spec).
C30_MutationsCheckOwnership ==
    [][\A i \in ReqIds :
          ( /\ Launched(i)
            /\ reqs'[i].op \in {"edit", "cancel", "updateStatus"} )
          => /\ UNCHANGED <<bookings, is_available>>
             /\ InFlight(reqs'[i])
                => MayActOn(reqs'[i].userId, bookings[reqs'[i].id])]_vars

\* C31: a refund call of a buyer is answered 403; a refund call of a provider
\* goes past the payment lookup only for a payment whose provider is the
\* caller; a refund call of an administrator, made while a completed payment
\* exists, is not answered 403 (SpecRefundRace).
C31_RefundRoles ==
    [][\A i \in ReqIds :
          ( /\ Launched(i) /\ reqs'[i].op = "refund"
            /\ "userId" \in DOMAIN reqs'[i] )
          => LET u == reqs'[i].userId IN
             /\ user_type[u] = "customer"
                => Answered(reqs'[i]) /\ reqs'[i].res.code = 403
             /\ ( user_type[u] = "vendor" /\ InFlight(reqs'[i]) )
                => payments[reqs'[i].id].vendor_id = u
             /\ ( /\ user_type[u] = "admin"
                  /\ \E p \in DOMAIN payments : payments[p].status = "completed" )
                => ~(Answered(reqs'[i]) /\ reqs'[i].res.code = 403)]_vars

\* C37: a refund call reaches stripe.refunds.create only for an intent for
\* which no refund call has reached it before (SpecRefundRace, where only refund
\* calls refund an intent).
C37_GatewayRefundIssuedOnce ==
    [][\A i \in ReqIds :
          ( /\ reqs[i].op = "refund" /\ reqs[i].pc = "gatewayRefund"
            /\ StepOf(i) )
          => intents[reqs[i].payment.stripe_payment_intent_id] = "succeeded"]_vars

----------------------------------------------------------------------------
(* Slots: findAvailable, claim, release *)

\* C32: the availability check of createBooking and of edit lets the request go
\* on exactly when the offering has an availability row on the requested date
\* with start_time <= requested start, end_time >= requested end and
\* is_available true; otherwise, also when rows cover the interval only in part
\* or every covering row is unavailable, it answers 400 'Requested time slot is
\* not available' (SpecSlots).
C32_FindAvailableIsContainment ==
    [][\A i \in ReqIds :
          ( /\ reqs[i].op \in {"createBooking", "edit"}
            /\ reqs[i].pc = "availabilityCheck"
            /\ StepOf(i) )
          => LET r == reqs[i]
                 service_id == IF r.op = "edit" THEN r.booking.service_id
                               ELSE r.service_id
                 found == SlotOnOffer(service_id, r.booking_date, r.start_time,
                                      r.end_time)
             IN /\ found <=> InFlight(reqs'[i])
                /\ ~found
                   => /\ reqs'[i].res.code = 400
                      /\ reqs'[i].res.message = "Requested time slot is not available"
                /\ UNCHANGED <<is_available, bookings>>]_vars

\* C32 witness: a createBooking call for [2,4), which the rows [1,3) and [2,3)
\* cover only in part, has been answered 'not available' while every row is
\* available
C32_Witness ==
    \E i \in ReqIds :
        /\ reqs[i].op = "createBooking" /\ Answered(reqs[i])
        /\ reqs[i].res.message = "Requested time slot is not available"
        /\ reqs[i].start_time = 2 /\ reqs[i].end_time = 4
        /\ \A s \in SlotIds : is_available[s]

\* the availability flags after the claim of createBooking and then the release
\* of cancel for the same offering, date and interval, run on the flags avail
ClaimThenRelease(avail, service_id, date, start_time, end_time) ==
    UpdateAvailability(
        UpdateAvailability(avail, FALSE, service_id, date, start_time, end_time),
        TRUE, service_id, date, start_time, end_time)

\* C33: in every reachable slot table and for every interval of s1 that
\* createBooking can claim there, the claim followed by the release of cancel
\* gives back the availability flag of every row, also of a covering row that
\* was unavailable before the claim (Spec).
C33_ClaimReleaseRoundTrip ==
    \A d \in Dates, iv \in Intervals :
        availabilityCheck(is_available, "s1", d, iv[1], iv[2]) # {}
        => ClaimThenRelease(is_available, "s1", d, iv[1], iv[2]) = is_available

\* the availability rows whose flag the step changes
Flipped == {s \in SlotIds : is_available'[s] # is_available[s]}

\* C34: the claim step of createBooking and of edit changes the flag of exactly
\* one availability row, a row that covers the claimed interval and was
\* available, and of no other row (Spec).
C34_ClaimMarksOneSlot ==
    [][\A i \in ReqIds :
          ( /\ StepOf(i)
            /\ \/ reqs[i].op = "createBooking" /\ reqs[i].pc = "updateAvailability"
               \/ reqs[i].op = "edit" /\ reqs[i].pc = "claimNew" )
          => /\ Cardinality(Flipped) = 1
             /\ \A s \in Flipped : is_available[s] /\ ~is_available'[s]]_vars

\* C35: the release step of a cancel, of a status update to cancelled and of
\* an edit makes available no row that covers a pending or confirmed booking
\* other than the booking the request is for (Spec).
C35_ReleaseOnlyOwnSlot ==
    [][\A i \in ReqIds :
          ( /\ StepOf(i)
            /\ \/ reqs[i].op \in {"cancel", "updateStatus"} /\ reqs[i].pc = "release"
               \/ reqs[i].op = "edit" /\ reqs[i].pc = "releaseOld" )
          => \A s \in Flipped :
                ~ \E b \in DOMAIN bookings :
                     /\ b # reqs[i].id
                     /\ bookings[b].status \in ActiveStatuses
                     /\ CoversBooking(s, bookings[b])]_vars

----------------------------------------------------------------------------
(* Events racing the handler *)

\* C36: once the delivery of a payment_intent.succeeded event has been answered
\* 200 and no create-intent call is in flight, the intent of the event has a
\* payment that is completed and the booking of that payment is confirmed
\* (SpecEventRace).
C36_SucceededIntentReflected ==
    \A i \in ReqIds :
        ( /\ reqs[i].op = "webhook" /\ Answered(reqs[i])
          /\ "event" \in DOMAIN reqs[i]
          /\ reqs[i].event.type = "payment_intent.succeeded"
          /\ reqs[i].res.code = 200
          /\ \A j \in ReqIds : ~(reqs[j].op = "createIntent" /\ InFlight(reqs[j])) )
        => \E p \in DOMAIN payments :
              /\ payments[p].stripe_payment_intent_id = reqs[i].event.intent
              /\ payments[p].status = "completed"
              /\ bookings[payments[p].booking_id].status = "confirmed"

----------------------------------------------------------------------------
(* The self-overlap test *)

\* C38: for all times s < e and a < b up to MaxTime the three clauses of
\* existingBookingCheck hold for the row [s,e) and the request [a,b) exactly
\* when s < b and e > a; and the self-overlap step of createBooking answers
\* 'You already have a booking' exactly when a pending, confirmed or in_progress
\* booking of the buyer on the date overlaps the requested interval, so not
\* for a back-to-back one (SpecSlots).
C38_SelfOverlapIsExact ==
    /\ [](\A s, e, a, b \in 0..MaxTime :
             (s < e /\ a < b)
             => ( TimeClash([start_time |-> s, end_time |-> e], a, b)
                  <=> (s < b /\ e > a) ))
    /\ [][\A i \in ReqIds :
            ( /\ reqs[i].op = "createBooking" /\ reqs[i].pc = "existingBookingCheck"
              /\ StepOf(i) )
            => ( SelfOverlap(reqs[i].customer_id, reqs[i].booking_date,
                             reqs[i].start_time, reqs[i].end_time,
                             {"pending", "confirmed", "in_progress"})
                 <=> /\ Answered(reqs'[i])
                     /\ reqs'[i].res.message
                           = "You already have a booking for this time slot" )]_vars

\* C38 witness: the buyer holds an active booking that ends at 2 and their
\* createBooking call for [2,3) has been answered 201
C38_Witness ==
    \E i \in ReqIds, b \in DOMAIN bookings :
        /\ reqs[i].op = "createBooking" /\ Answered(reqs[i])
        /\ reqs[i].res.code = 201
        /\ reqs[i].start_time = 2 /\ reqs[i].end_time = 3
        /\ bookings[b].customer_id = reqs[i].customer_id
        /\ bookings[b].status \in ActiveStatuses
        /\ bookings[b].end_time = 2

----------------------------------------------------------------------------
(* Edits that keep the interval *)

\* the edit request r asks for the date and times its booking already has
KeepsInterval(r) ==
    /\ r.booking_date = r.booking.booking_date
    /\ r.start_time = r.booking.start_time
    /\ r.end_time = r.booking.end_time

\* C39: no step of an edit that asks for the date and times its booking already
\* has changes an availability flag, and such an edit is answered 200 (Spec).
C39_UnchangedIntervalEditSucceeds ==
    [][\A i \in ReqIds :
          ( /\ reqs[i].op = "edit" /\ InFlight(reqs[i])
            /\ KeepsInterval(reqs[i])
            /\ StepOf(i) )
          => /\ is_available' = is_available
             /\ Answered(reqs'[i]) => reqs'[i].res.code = 200]_vars

----------------------------------------------------------------------------
(* The charge amount *)

\* the availability rows that createBooking marked for the booking row
ClaimedSlots(row) ==
    {s \in SlotIds : Covers(availability[s], row.service_id, row.booking_date,
                            row.start_time, row.end_time)}

\* C40: the amount of every payment row is the base price of the booking's
\* offering times the price multiplier of each slot the booking claimed, so it
\* is the same whichever of them is read, and the gateway is asked for 100 times
\* the amount the handler goes on to store (SpecAmount).
C40_AmountIsBasePriceTimesClaimedMultiplier ==
    /\ \A p \in DOMAIN payments :
          \A s \in ClaimedSlots(bookings[payments[p].booking_id]) :
             payments[p].amount =
                services[bookings[payments[p].booking_id].service_id].base_price
                  * availability[s].price_modifier
    /\ \A i \in ReqIds :
          (reqs[i].op = "createIntent" /\ "paymentIntent" \in DOMAIN reqs[i])
          => reqs[i].paymentIntent.amount = 100 * reqs[i].totalAmount

====
